---- MODULE Spec2Model ----
(***************************************************************************)
(* Agentic honey-pot API: the /analyze request handler, the in-memory      *)
(* session store, the termination policy and the report callback.          *)
(*                                                                         *)
(* Text is modelled by TLA+ strings; a character of a string s is          *)
(* SubSeq(s, i, i).  Lists are sequences.  Confidences are integers in     *)
(* hundredths (0.85 is 85).                                                *)
(***************************************************************************)
EXTENDS Integers, Sequences, FiniteSets, TLC

VARIABLES
    sessions,   \* SessionManager._sessions: session id -> SessionState
    pc,         \* per request slot: where its coroutine stands
    req,        \* per request slot: the request being served and its locals
    running,    \* the slot whose coroutine holds the event loop, 0 when it is free
    response,   \* per request slot: the last HTTP response it produced
    reports,    \* the reports the evaluation endpoint answered with HTTP 200,
                \* each with the "success" send_final_result returned
    call        \* the last direct call of one component, in the specifications
                \* that exercise a component alone

vars == <<sessions, pc, req, running, response, reports, call>>

(***************************************************************************)
(* Bounds of the model.                                                    *)
(***************************************************************************)
\* request slots of the concurrent specification
MaxInflight == 2
\* stored messages over all sessions, concurrent specification
MaxMessages == 4
\* stored messages over all sessions, sequential specification
MaxSeqMessages == 22
\* message counts should_end_conversation is called with alone
MaxPolicyMessages == 21
\* direct calls of the session manager
MaxStoreCalls == 3
\* answers of the evaluation endpoint with HTTP 200 and a body that is no JSON
MaxBadBodies == 1
\* pieces joined into one text an extractor is called with alone
MaxPieces == 2

(***************************************************************************)
(* Strings and lists.                                                      *)
(***************************************************************************)
Char(s, i) == SubSeq(s, i, i)

ToSet(l) == {l[i] : i \in DOMAIN l}

Whitespace == {" ", "\t", "\n"}

CharsOf(s) == {Char(s, i) : i \in 1..Len(s)}

UpperCase == "ABCDEFGHIJKLMNOPQRSTUVWXYZ"
LowerCase == "abcdefghijklmnopqrstuvwxyz"
UpperChars == CharsOf(UpperCase)
Digit == CharsOf("0123456789")
\* \w of the re module, on the ASCII texts of the model
WordChar == UpperChars \cup CharsOf(LowerCase) \cup Digit \cup {"_"}

LowerChar(c) ==
    IF c \in UpperChars
    THEN Char(LowerCase, CHOOSE i \in 1..Len(UpperCase) : Char(UpperCase, i) = c)
    ELSE c

RECURSIVE Lower(_)
\* str.lower()
Lower(s) == IF s = "" THEN "" ELSE LowerChar(Head(s)) \o Lower(Tail(s))

RECURSIVE ConcatAll(_)
ConcatAll(ss) == IF ss = <<>> THEN <<>> ELSE Head(ss) \o ConcatAll(Tail(ss))

\* `sub in s`
Contains(s, sub) ==
    \E i \in 1..(Len(s) - Len(sub) + 1) : SubSeq(s, i, i + Len(sub) - 1) = sub

StartsWith(s, p) == Len(p) <= Len(s) /\ SubSeq(s, 1, Len(p)) = p
EndsWith(s, p) == Len(p) <= Len(s) /\ SubSeq(s, Len(s) - Len(p) + 1, Len(s)) = p

(***************************************************************************)
(* The regular expressions of the source, as the re module matches them.   *)
(* A pattern is a sequence of items:                                       *)
(*   Cls(S, lo, hi)    a character of S, lo to hi times, greedy            *)
(*                     (hi < 0: unbounded)                                 *)
(*   NotCls(S, lo, hi) a character outside S, likewise                     *)
(*   Lit(str)          the literal str; LitI(str): ignoring case           *)
(*   Grp(alts)  a capturing group, alts its alternatives in order          *)
(*   Opt(alts)  a group followed by ?                                      *)
(*   WB \b;  NotBefore(S) (?<!S);  NotAfter(S) (?!S)                       *)
(* Ends(items, k, s, i) lists, in the order backtracking tries them, the   *)
(* ways items[k..] match s from position i: where each ends and what its   *)
(* capturing groups hold.                                                  *)
(***************************************************************************)
Cls(S, lo, hi) == [t |-> "cls", set |-> S, neg |-> FALSE, lo |-> lo, hi |-> hi]
NotCls(S, lo, hi) == [t |-> "cls", set |-> S, neg |-> TRUE, lo |-> lo, hi |-> hi]
Lit(str) == [t |-> "lit", s |-> str, ci |-> FALSE]
LitI(str) == [t |-> "lit", s |-> str, ci |-> TRUE]
Grp(alts) == [t |-> "grp", alts |-> alts, cap |-> TRUE, opt |-> FALSE]
Opt(alts) == [t |-> "grp", alts |-> alts, cap |-> FALSE, opt |-> TRUE]
Alt(alts) == [t |-> "grp", alts |-> alts, cap |-> FALSE, opt |-> FALSE]
WB == [t |-> "wb"]
NotBefore(S) == [t |-> "nlb", set |-> S]
NotAfter(S) == [t |-> "nla", set |-> S]

IsWordAt(s, i) == i >= 1 /\ i <= Len(s) /\ Char(s, i) \in WordChar

InCls(it, c) == IF it.neg THEN c \notin it.set ELSE c \in it.set

RECURSIVE RunLen(_, _, _, _)
\* how many characters from position i on are in the class, up to hi
RunLen(it, s, i, hi) ==
    IF hi = 0 \/ i > Len(s) \/ ~InCls(it, Char(s, i)) THEN 0
    ELSE 1 + RunLen(it, s, i + 1, hi - 1)

RECURSIVE Ends(_, _, _, _)
Ends(items, k, s, i) ==
    IF k > Len(items) THEN << [end |-> i, caps |-> <<>>] >>
    ELSE LET it == items[k] IN
      CASE it.t = "cls" ->
             LET run == RunLen(it, s, i, IF it.hi < 0 THEN Len(s) ELSE it.hi)
             IN  ConcatAll([n \in 1..(run - it.lo + 1) |->
                               Ends(items, k + 1, s, i + run - n + 1)])
        [] it.t = "lit" ->
             LET got == SubSeq(s, i, i + Len(it.s) - 1)
             IN  IF i + Len(it.s) - 1 <= Len(s)
                    /\ (IF it.ci
                        THEN \A j \in 1..Len(it.s) :
                                LowerChar(Char(got, j)) = LowerChar(Char(it.s, j))
                        ELSE got = it.s)
                 THEN Ends(items, k + 1, s, i + Len(it.s))
                 ELSE <<>>
        [] it.t = "wb" ->
             IF IsWordAt(s, i - 1) # IsWordAt(s, i)
             THEN Ends(items, k + 1, s, i) ELSE <<>>
        [] it.t = "nlb" ->
             IF i > 1 /\ Char(s, i - 1) \in it.set
             THEN <<>> ELSE Ends(items, k + 1, s, i)
        [] it.t = "nla" ->
             IF i <= Len(s) /\ Char(s, i) \in it.set
             THEN <<>> ELSE Ends(items, k + 1, s, i)
        [] it.t = "grp" ->
             LET via(a) ==
                   LET inner == Ends(it.alts[a], 1, s, i)
                   IN  ConcatAll([j \in 1..Len(inner) |->
                         LET rest == Ends(items, k + 1, s, inner[j].end)
                             own == IF it.cap
                                    THEN <<SubSeq(s, i, inner[j].end - 1)>>
                                    ELSE <<>>
                         IN  [m \in 1..Len(rest) |->
                                [end |-> rest[m].end,
                                 caps |-> own \o inner[j].caps \o rest[m].caps]]])
                 taken == ConcatAll([a \in 1..Len(it.alts) |-> via(a)])
             IN  IF it.opt THEN taken \o Ends(items, k + 1, s, i) ELSE taken

RECURSIVE FindIterFrom(_, _, _)
\* re.finditer(pattern, s): the leftmost matches, none overlapping
FindIterFrom(items, s, i) ==
    IF i > Len(s) THEN <<>>
    ELSE LET m == Ends(items, 1, s, i)
         IN  IF m = <<>> THEN FindIterFrom(items, s, i + 1)
             ELSE << [start |-> i, end |-> m[1].end, caps |-> m[1].caps] >>
                  \o FindIterFrom(items, s, IF m[1].end > i THEN m[1].end ELSE i + 1)

FindIter(items, s) == FindIterFrom(items, s, 1)

\* re.search(pattern, s) is not None
Search(items, s) == \E i \in 1..Len(s) : Ends(items, 1, s, i) # <<>>

\* match.group(0)
Group0(s, m) == SubSeq(s, m.start, m.end - 1)

RECURSIVE RStrip(_, _)
\* str.rstrip(chars)
RStrip(s, chars) ==
    IF s # "" /\ Char(s, Len(s)) \in chars
    THEN RStrip(SubSeq(s, 1, Len(s) - 1), chars) ELSE s

RECURSIVE LStrip(_, _)
\* str.lstrip(chars)
LStrip(s, chars) ==
    IF s # "" /\ Head(s) \in chars THEN LStrip(Tail(s), chars) ELSE s

RECURSIVE Join(_, _)
\* sep.join(parts)
Join(sep, parts) ==
    IF parts = <<>> THEN ""
    ELSE IF Len(parts) = 1 THEN parts[1]
    ELSE parts[1] \o sep \o Join(sep, Tail(parts))

RECURSIVE ReplaceChar(_, _, _)
\* str.replace(old, new) for a one-character old
ReplaceChar(s, old, new) ==
    IF s = "" THEN ""
    ELSE (IF Head(s) = old THEN new ELSE Head(s)) \o ReplaceChar(Tail(s), old, new)

(***************************************************************************)
(* intelligence_extractor.py.  TLA+ strings are ASCII, so the four         *)
(* non-ASCII characters the normalizer replaces are written with ASCII     *)
(* characters no pattern of the source mentions:                           *)
(*    ~  U+2013 en dash     #  U+2014 em dash                              *)
(*    *  U+2212 minus sign  %  U+00A0 no-break space                       *)
(***************************************************************************)
EnDash == "~"
EmDash == "#"
MinusSign == "*"
Nbsp == "%"

\* \s of the re module, and what str.strip() removes
Space == Whitespace \cup {Nbsp}

\* `not s or not s.strip()`
IsBlank(s) == \A i \in 1..Len(s) : Char(s, i) \in Space

\* The dict's two "curly quote" keys are ASCII in the source: together they
\* form one triple-quoted key that no message contains, and '"' maps to
\* itself, so the dashes and the no-break space are all that is replaced.
_normalize_text(text) ==
    ReplaceChar(ReplaceChar(ReplaceChar(ReplaceChar(text,
        EnDash, "-"), EmDash, "-"), MinusSign, "-"), Nbsp, " ")

_clean_extracted_value(value) ==
    LStrip(RStrip(LStrip(RStrip(value, Space), Space),
                  CharsOf(".,;:!?)\"'>")), CharsOf("<\"'("))

ReAccount == << WB, Grp(<< << Cls(Digit, 9, 18) >> >>), WB >>

Sep == {"-"} \cup Space
Digits4 == Grp(<< << Cls(Digit, 4, 4) >> >>)
ReCard == << WB, Digits4, Cls(Sep, 0, 1), Digits4, Cls(Sep, 0, 1),
             Digits4, Cls(Sep, 0, 1), Digits4, WB >>

\* The filter of the 10-digit numbers alone
IsPhoneLike_ten(num) ==
    Len(num) = 10 /\ Char(num, 1) \in CharsOf("6789")

\* lines 52-56
IsPhoneLike(num) ==
    \/ Len(num) = 10 /\ Char(num, 1) \in CharsOf("6789")
    \/ Len(num) = 12 /\ StartsWith(num, "91") /\ Char(num, 3) \in CharsOf("6789")

\* The extractors return list(set): here the set, whose order no caller reads.
extract_bank_accounts(text0) ==
    LET text == _normalize_text(text0)
        runs == {m.caps[1] : m \in ToSet(FindIter(ReAccount, text))}
        cards == {m.caps[1] \o m.caps[2] \o m.caps[3] \o m.caps[4] :
                    m \in ToSet(FindIter(ReCard, text))}
    IN  {num \in runs : ~IsPhoneLike(num)} \cup cards

email_tlds == {".com", ".org", ".net", ".in", ".co", ".io", ".edu",
               ".gov", ".info", ".biz", ".me", ".us", ".uk", ".au"}

email_providers == {"gmail", "yahoo", "hotmail", "outlook", "email",
                    "mail", "protonmail", "icloud", "live", "msn",
                    "aol", "rediffmail", "zoho", "yandex"}

AlNum == CharsOf(UpperCase) \cup CharsOf(LowerCase) \cup Digit
HandleChar == AlNum \cup CharsOf("._-")
ReUpi == << Grp(<< << Cls(AlNum, 1, 1), Cls(HandleChar, 0, -1), Lit("@"),
                      Cls(AlNum, 1, 1), Cls(HandleChar, 0, -1) >> >>) >>

RECURSIVE AfterLast(_, _)
\* s.split(c)[-1]
AfterLast(s, c) ==
    IF \E i \in 1..Len(s) : Char(s, i) = c
    THEN AfterLast(SubSeq(s, (CHOOSE i \in 1..Len(s) : Char(s, i) = c) + 1, Len(s)), c)
    ELSE s

\* The filter of the top-level domains alone
extract_upi_ids_tld_only(text0) ==
    LET text == _normalize_text(Lower(text0))
        found == {_clean_extracted_value(m.caps[1]) :
                    m \in ToSet(FindIter(ReUpi, text))}
    IN  {upi \in found :
           /\ upi # "" /\ Contains(upi, "@")
           /\ ~\E tld \in email_tlds : EndsWith(AfterLast(upi, "@"), tld)}

extract_upi_ids(text0) ==
    LET text == _normalize_text(Lower(text0))
        found == {_clean_extracted_value(m.caps[1]) :
                    m \in ToSet(FindIter(ReUpi, text))}
    IN  {upi \in found :
           /\ upi # "" /\ Contains(upi, "@")
           /\ ~\E tld \in email_tlds : EndsWith(AfterLast(upi, "@"), tld)
           /\ ~\E provider \in email_providers :
                  Contains(AfterLast(upi, "@"), provider)}

PhoneSep == CharsOf("-.") \cup Space
Digits5 == Grp(<< << Cls(Digit, 5, 5) >> >>)
Digits10 == Grp(<< << Cls(Digit, 10, 10) >> >>)
RePhonePlusGrouped == << Lit("+91"), Cls(PhoneSep, 0, 1), Digits5,
                         Cls(PhoneSep, 0, 1), Digits5 >>
RePhonePlus == << Lit("+91"), Cls(PhoneSep, 0, 1), Digits10, WB >>
RePhone91 == << WB, Lit("91"), Cls(PhoneSep, 0, 1), Digits10, WB >>
RePhone0 == << WB, Lit("0"), Digits10, WB >>
\* The bare pattern without its lookarounds
RePhoneBare_unguarded ==
    << Grp(<< << Cls(CharsOf("6789"), 1, 1), Cls(Digit, 9, 9) >> >>) >>

\* line 121
RePhoneBare == << NotBefore(Digit),
                  Grp(<< << Cls(CharsOf("6789"), 1, 1), Cls(Digit, 9, 9) >> >>),
                  NotAfter(Digit) >>

extract_phone_numbers(text0) ==
    LET text == _normalize_text(text0)
    IN  {"+91" \o m.caps[1] \o m.caps[2] :
            m \in ToSet(FindIter(RePhonePlusGrouped, text))}
        \cup UNION {{"+91" \o m.caps[1] : m \in ToSet(FindIter(re, text))} :
                      re \in {RePhonePlus, RePhone91, RePhone0, RePhoneBare}}

UrlStop == Space \cup CharsOf("<>\"")
ReUrl == << LitI("http"), Cls(CharsOf("sS"), 0, 1), Lit("://"),
            NotCls(UrlStop, 1, -1) >>
\* The source's class also excludes the backquote, which no TLA+ string can
\* hold: the texts of the model are without it.
ReWww == << WB, Grp(<< << LitI("www."),
                          NotCls(Space \cup CharsOf("<>\"'[]{}|\\^"), 1, -1) >> >>) >>
shorteners == {"bit.ly", "tinyurl.com", "goo.gl", "t.co", "cutt.ly",
               "shorturl.at", "rb.gy", "ow.ly", "is.gd", "v.gd"}
ReShortener(shortener) ==
    << Grp(<< << LitI(shortener), Lit("/"),
                 NotCls(Space \cup CharsOf("<>\"'"), 1, -1) >> >>) >>

extract_phishing_links(text0) ==
    LET text == _normalize_text(text0)
        plain == {RStrip(Group0(text, m), CharsOf(".,;:!?)\">]")) :
                    m \in ToSet(FindIter(ReUrl, text))} \ {""}
        www == {_clean_extracted_value(m.caps[1]) :
                    m \in ToSet(FindIter(ReWww, text))} \ {""}
        short == UNION {{_clean_extracted_value(m.caps[1]) :
                           m \in ToSet(FindIter(ReShortener(sh), text))} :
                        sh \in shorteners} \ {""}
    IN  plain \cup {"https://" \o url : url \in www}
              \cup {IF StartsWith(url, "http") THEN url ELSE "https://" \o url :
                      url \in short}

keywords == {
    "urgent", "immediately", "right now", "within minutes", "hurry",
    "blocked", "suspended", "freeze", "locked", "terminated", "deactivated",
    "verify", "confirm", "validate", "authenticate",
    "otp", "pin", "password", "cvv", "mpin", "atm pin",
    "kyc", "pan", "aadhar", "identity", "pan card",
    "refund", "cashback", "prize", "lottery", "winner", "reward", "bonus",
    "claim", "redeem", "collect", "receive",
    "warning", "alert", "security", "unauthorized", "suspicious activity",
    "compromised", "hacked", "expired", "expiring"}

extract_suspicious_keywords(text) ==
    LET text_lower == Lower(text)
    IN  {keyword \in keywords : Contains(text_lower, keyword)}

Texts(messages) == [i \in DOMAIN messages |-> messages[i].text]

\* An ExtractedIntelligence of sets: what extract_all builds, before any
\* list order is fixed.
extract_all(messages) ==
    LET all_text == Join(" ", Texts(messages))
    IN  [bankAccounts |-> extract_bank_accounts(all_text),
         upiIds |-> extract_upi_ids(all_text),
         phoneNumbers |-> extract_phone_numbers(all_text),
         phishingLinks |-> extract_phishing_links(all_text),
         suspiciousKeywords |-> extract_suspicious_keywords(all_text)]

(***************************************************************************)
(* scam_detector.py                                                        *)
(***************************************************************************)
SCAM_KEYWORDS == {
    "urgent", "immediately", "verify now", "account blocked", "suspended",
    "bank account", "upi", "otp", "pin", "password", "cvv", "expire",
    "click here", "limited time", "act now", "confirm your", "update your",
    "kyc", "pan card", "aadhar", "lottery", "prize", "winner", "congratulations",
    "refund", "cashback", "claim", "free", "offer", "bonus", "reward",
    "transfer", "payment pending", "transaction failed", "unauthorized",
    "suspicious activity", "security alert", "warning", "block", "freeze"}

\* \s+
Sp == Cls(Space, 1, -1)
\* (w1|w2|...), each alternative a literal
Words(ws) == Alt([i \in DOMAIN ws |-> << Lit(ws[i]) >>])
\* (word\s+)?
OptWord(w) == Opt(<< << Lit(w), Sp >> >>)

\* Only whether a pattern matches is read, so its groups capture nothing here.
SCAM_PATTERNS == {
    << Lit("your"), Sp, OptWord("bank"), Lit("account"), Sp,
       Alt(<< << Lit("will"), Sp, Lit("be"), Sp >>,
              << Lit("is"), Sp >>,
              << Lit("has"), Sp, Lit("been"), Sp >> >>),
       Words(<<"blocked", "suspended", "frozen">>) >>,
    << Lit("verify"), Sp, OptWord("your"),
       Words(<<"account", "identity", "details">>), Sp,
       Words(<<"immediately", "now", "urgently">>) >>,
    << Lit("share"), Sp, OptWord("your"),
       Alt(<< << Lit("otp") >>, << Lit("pin") >>, << Lit("password") >>,
              << Lit("upi"), Sp, Lit("id") >>,
              << Lit("bank"), Sp, Lit("details") >> >>) >>,
    << Lit("click"), Sp, OptWord("on"), OptWord("this"), Lit("link") >>,
    << Lit("you"), Sp, OptWord("have"), Words(<<"won", "received">>), Sp,
       OptWord("a"), Words(<<"prize", "lottery", "reward", "cashback">>) >>,
    << Lit("call"), Sp,
       Alt(<< << Lit("this"), Sp, Lit("number") >>, << Lit("us") >> >>), Sp,
       Words(<<"immediately", "now", "urgently">>) >>,
    << Words(<<"kyc", "pan", "aadhar">>), Sp,
       Words(<<"verification", "update">>), Sp,
       Words(<<"required", "pending", "failed">>) >>,
    << Words(<<"unauthorized", "suspicious">>), Sp,
       Words(<<"transaction", "activity", "login">>) >> }

\* The found lists hold each keyword or pattern once: here as sets.
detect_keywords(text) ==
    LET text_lower == Lower(text)
    IN  {keyword \in SCAM_KEYWORDS : Contains(text_lower, keyword)}

detect_patterns(text) ==
    LET text_lower == Lower(text)
    IN  {pattern \in SCAM_PATTERNS : Search(pattern, text_lower)}

Min(a, b) == IF a <= b THEN a ELSE b

(***************************************************************************)
(* The classification oracle answers with llm = [ok, is_scam, confidence]: *)
(* ok is FALSE when the call raises; is_scam and confidence (hundredths)   *)
(* are what lines 100-110 parse from the answer's text.                    *)
(***************************************************************************)
analyze_with_llm(text, llm) ==
    IF llm.ok
    THEN [is_scam |-> llm.is_scam, confidence |-> llm.confidence]
    ELSE LET nk == Cardinality(detect_keywords(text))
             np == Cardinality(detect_patterns(text))
         IN  [is_scam |-> nk >= 2 \/ np >= 1,
              confidence |-> Min(30 + nk * 10 + np * 20, 100)]

\* round(x / 10000, 2) in hundredths, x in ten-thousandths
Round2(x) == (x + 50) \div 100

detect(text, llm) ==
    LET nk == Cardinality(detect_keywords(text))
        np == Cardinality(detect_patterns(text))
        res == analyze_with_llm(text, llm)
        keyword_score == Min(nk * 15, 50)
        pattern_score == Min(np * 25, 50)
        \* in ten-thousandths
        final_confidence ==
            res.confidence * 60 + keyword_score * 20 + pattern_score * 20
    IN  [is_scam |-> final_confidence >= 4000 \/ res.is_scam,
         confidence |-> Round2(final_confidence)]

(***************************************************************************)
(* agent.py                                                                *)
(***************************************************************************)
Strip(s) == LStrip(RStrip(s, Space), Space)

\* The chain compared with < in place of <=
StageOf_strict(msg_count) ==
    IF msg_count = 0 THEN 1
    ELSE IF msg_count < 2 THEN 2
    ELSE IF msg_count < 5 THEN 3
    ELSE IF msg_count < 8 THEN 4
    ELSE IF msg_count < 12 THEN 5
    ELSE IF msg_count < 16 THEN 6
    ELSE 7

\* The conversation stage, 1 to 7, of a message count.  agent.py and
\* main.py each spell out the same chain of comparisons.
StageOf(msg_count) ==
    IF msg_count = 0 THEN 1
    ELSE IF msg_count <= 2 THEN 2
    ELSE IF msg_count <= 5 THEN 3
    ELSE IF msg_count <= 8 THEN 4
    ELSE IF msg_count <= 12 THEN 5
    ELSE IF msg_count <= 16 THEN 6
    ELSE 7

\* seq[-n:]
LastN(seq, n) == SubSeq(seq, IF Len(seq) > n THEN Len(seq) - n + 1 ELSE 1, Len(seq))

\* seq[:n]
FirstN(seq, n) == SubSeq(seq, 1, Min(n, Len(seq)))

IsAgentMessage(msg) == msg.sender # "scammer"

_get_previous_responses(history) ==
    LastN(Texts(SelectSeq(history, IsAgentMessage)), 5)

prefixes_to_remove == << "Shanti:", "Shanti Devi:", "Response:", "Reply:",
                         "Me:", "Assistant:", "\"", "'" >>

RECURSIVE RemovePrefixes(_, _)
\* lines 230-232: each prefix in turn, cut off when the reply starts with it
RemovePrefixes(reply, k) ==
    IF k > Len(prefixes_to_remove) THEN reply
    ELSE LET prefix == prefixes_to_remove[k]
         IN  RemovePrefixes(
                 IF StartsWith(reply, prefix)
                 THEN Strip(SubSeq(reply, Len(prefix) + 1, Len(reply)))
                 ELSE reply,
                 k + 1)

\* lines 223-234
CleanReply(content) ==
    Strip(RStrip(RStrip(RemovePrefixes(Strip(content), 1), {"\""}), {"'"}))

\* line 237
IsTruncated(reply) ==
    \/ Len(reply) < 30
    \/ /\ ~\E e \in {"?", "!", "."} : EndsWith(reply, e)
       /\ Len(reply) < 50

variety_additions == { " My eyes are troubling me today.",
                       " Let me put on my glasses.",
                       " This phone is so confusing!",
                       " Wait, network is slow here." }

\* lines 241-242
IsRepeated(reply, prev_responses) ==
    \E j \in DOMAIN prev_responses :
        /\ Len(prev_responses[j]) > 20
        /\ \/ Contains(Lower(prev_responses[j]), Lower(reply))
           \/ Contains(Lower(reply), Lower(prev_responses[j]))

stage_fallbacks == <<
    << "Hello? Who is this? I didn't understand your message.",
       "What? My account? Who is messaging me?",
       "Sorry, who are you? What happened to my account?" >>,
    << "Oh my god! Is my money safe? Which account are you talking about?",
       "What suspicious activity? I haven't done any transaction!",
       "SBI or ICICI? I have accounts in both... which one has problem?" >>,
    << "Okay okay, let me try... but where exactly should I send?",
       "Wait, my phone is loading very slowly. What was that UPI ID?",
       "I am trying to open the app but it's taking time..." >>,
    << "One minute beta, let me note this down. What was your number again?",
       "My neighbor Sharma ji said I should ask for your employee ID first.",
       "Wait, I need my glasses. Can you send me the link again?" >>,
    << "I tried but it's showing error. Can you give me another number to contact?",
       "My son Rajesh will be home in evening, he knows about these things.",
       "The app is not working. Is there a phone number I can call you on?" >>,
    << "I am very confused now. Can you explain from beginning? What is your official number?",
       "Let me call my bank first to verify. What is your name and ID?",
       "Please send me everything in one message, I keep forgetting." >>,
    << "I think I should visit the bank in person tomorrow. Which branch should I go to?",
       "My son is calling me, he will handle this. Can you message your details?",
       "This is too confusing on phone. Send me your bank account to verify you are real." >> >>

\* lines 310-324: the phrases random.choice draws from
FallbackReplies(history) ==
    LET fallbacks == ToSet(stage_fallbacks[StageOf(Len(history))])
        prev_responses == _get_previous_responses(history)
        similar(f) == \E j \in DOMAIN prev_responses :
            \/ Contains(Lower(prev_responses[j]), FirstN(Lower(f), 20))
            \/ Contains(Lower(f), FirstN(Lower(prev_responses[j]), 20))
        available == {f \in fallbacks : ~similar(f)}
    IN  IF available = {} THEN fallbacks ELSE available

(***************************************************************************)
(* The generation oracle answers with gen = [ok, content]: ok is FALSE     *)
(* when the call raises, content is the completion's text.  The replies    *)
(* generate_response can return: its random choices are left open.         *)
(***************************************************************************)
\* A failed call answered with an empty reply
generate_response_empty(conversation_history, gen) ==
    LET history == conversation_history
        reply == CleanReply(gen.content)
    IN  IF ~gen.ok THEN {""}
        ELSE IF IsTruncated(reply) THEN FallbackReplies(history)
        ELSE IF IsRepeated(reply, _get_previous_responses(history))
        THEN {RStrip(reply, CharsOf(".!?")) \o "." \o v : v \in variety_additions}
        ELSE {reply}

generate_response(conversation_history, gen) ==
    LET history == conversation_history
        reply == CleanReply(gen.content)
    IN  IF ~gen.ok \/ IsTruncated(reply) THEN FallbackReplies(history)
        ELSE IF IsRepeated(reply, _get_previous_responses(history))
        THEN {RStrip(reply, CharsOf(".!?")) \o "." \o v : v \in variety_additions}
        ELSE {reply}

\* Sum of the booleans of line 343
Count(flags) == Cardinality({i \in DOMAIN flags : flags[i]})

\* The message ceiling compared with > in place of >=
should_end_conversation_over(conversation_history, intelligence_extracted) ==
    LET msg_count == Len(conversation_history)
        has_bank == Len(intelligence_extracted.bankAccounts) > 0
        has_upi == Len(intelligence_extracted.upiIds) > 0
        has_phone == Len(intelligence_extracted.phoneNumbers) > 0
        has_link == Len(intelligence_extracted.phishingLinks) > 0
        intel_count == Count(<<has_bank, has_upi, has_phone, has_link>>)
    IN  IF msg_count > 20 THEN <<TRUE, "Maximum message count reached">>
        ELSE IF intel_count >= 2 /\ msg_count >= 10
        THEN <<TRUE, "Sufficient intelligence extracted">>
        ELSE IF intel_count >= 3 THEN <<TRUE, "Rich intelligence extracted">>
        ELSE <<FALSE, "Continue engagement">>

\* The secondary floor compared with > in place of >=
should_end_conversation_late(conversation_history, intelligence_extracted) ==
    LET msg_count == Len(conversation_history)
        has_bank == Len(intelligence_extracted.bankAccounts) > 0
        has_upi == Len(intelligence_extracted.upiIds) > 0
        has_phone == Len(intelligence_extracted.phoneNumbers) > 0
        has_link == Len(intelligence_extracted.phishingLinks) > 0
        intel_count == Count(<<has_bank, has_upi, has_phone, has_link>>)
    IN  IF msg_count >= 20 THEN <<TRUE, "Maximum message count reached">>
        ELSE IF intel_count >= 2 /\ msg_count > 10
        THEN <<TRUE, "Sufficient intelligence extracted">>
        ELSE IF intel_count >= 3 THEN <<TRUE, "Rich intelligence extracted">>
        ELSE <<FALSE, "Continue engagement">>

should_end_conversation(conversation_history, intelligence_extracted) ==
    LET msg_count == Len(conversation_history)
        has_bank == Len(intelligence_extracted.bankAccounts) > 0
        has_upi == Len(intelligence_extracted.upiIds) > 0
        has_phone == Len(intelligence_extracted.phoneNumbers) > 0
        has_link == Len(intelligence_extracted.phishingLinks) > 0
        intel_count == Count(<<has_bank, has_upi, has_phone, has_link>>)
    IN  IF msg_count >= 20 THEN <<TRUE, "Maximum message count reached">>
        ELSE IF intel_count >= 2 /\ msg_count >= 10
        THEN <<TRUE, "Sufficient intelligence extracted">>
        ELSE IF intel_count >= 3 THEN <<TRUE, "Rich intelligence extracted">>
        ELSE <<FALSE, "Continue engagement">>

(***************************************************************************)
(* intelligence_extractor.py: generate_agent_notes.  The intelligence      *)
(* passed is the session's, whose fields are lists.                        *)
(***************************************************************************)
AnyIn(ks, list) == \E k \in ks : k \in ToSet(list)

ScamType(kws) ==
    IF AnyIn({"otp", "pin", "password", "cvv", "mpin"}, kws)
    THEN "OTP/credential theft scam"
    ELSE IF AnyIn({"blocked", "suspended", "freeze", "locked"}, kws)
    THEN "Account blocking fraud"
    ELSE IF AnyIn({"lottery", "prize", "winner"}, kws)
    THEN "Lottery/prize scam"
    ELSE IF AnyIn({"refund", "cashback"}, kws)
    THEN "Refund/cashback fraud"
    ELSE IF AnyIn({"kyc", "pan", "aadhar"}, kws)
    THEN "KYC verification scam"
    ELSE "Financial fraud attempt"

Tactics(kws) ==
    (IF AnyIn({"urgent", "immediately", "right now", "hurry"}, kws)
     THEN <<"urgency">> ELSE <<>>)
    \o (IF AnyIn({"blocked", "suspended", "warning", "freeze", "locked"}, kws)
        THEN <<"fear/threats">> ELSE <<>>)
    \o (IF AnyIn({"verify", "identity", "security", "authenticate"}, kws)
        THEN <<"impersonation">> ELSE <<>>)

IntelParts(intelligence) ==
    (IF intelligence.phoneNumbers # <<>>
     THEN << "Phone: " \o Join(", ", FirstN(intelligence.phoneNumbers, 3)) >>
     ELSE <<>>)
    \o (IF intelligence.upiIds # <<>>
        THEN << "UPI: " \o Join(", ", FirstN(intelligence.upiIds, 3)) >>
        ELSE <<>>)
    \o (IF intelligence.phishingLinks # <<>>
        THEN << "URL: " \o Join(", ", FirstN(intelligence.phishingLinks, 2)) >>
        ELSE <<>>)
    \o (IF intelligence.bankAccounts # <<>>
        THEN << "Account: " \o Join(", ", FirstN(intelligence.bankAccounts, 2)) >>
        ELSE <<>>)

generate_agent_notes(messages, intelligence) ==
    LET kws == intelligence.suspiciousKeywords
        tactics == Tactics(kws)
        intel_parts == IntelParts(intelligence)
    IN  Join(" ",
          << "Scam type: " \o ScamType(kws) \o "." >>
          \o (IF tactics # <<>>
              THEN << "Tactics: " \o Join(", ", tactics) \o "." >> ELSE <<>>)
          \o (IF intel_parts # <<>>
              THEN << "Extracted: " \o Join("; ", intel_parts) \o "." >> ELSE <<>>))

(***************************************************************************)
(* session_manager.py.  The store is a function from the session ids it    *)
(* holds to SessionState records; each operation gives the store after it. *)
(***************************************************************************)
EmptyIntelligence ==
    [bankAccounts |-> <<>>, upiIds |-> <<>>, phishingLinks |-> <<>>,
     phoneNumbers |-> <<>>, suspiciousKeywords |-> <<>>]

SessionState(session_id) ==
    [session_id |-> session_id,
     scam_detected |-> FALSE,
     scam_confidence |-> 0,
     messages |-> <<>>,
     extracted_intelligence |-> EmptyIntelligence,
     agent_notes |-> "",
     callback_sent |-> FALSE]

total_messages(session) == Len(session.messages)

\* A new session made from the state of one the store holds
get_or_create_shared(store, session_id) ==
    IF session_id \in DOMAIN store THEN store
    ELSE [id \in DOMAIN store \cup {session_id} |->
            IF id \in DOMAIN store THEN store[id]
            ELSE IF DOMAIN store = {} THEN SessionState(session_id)
            ELSE [store[CHOOSE other \in DOMAIN store : TRUE]
                    EXCEPT !.session_id = session_id]]

get_or_create(store, session_id) ==
    IF session_id \in DOMAIN store THEN store
    ELSE store @@ (session_id :> SessionState(session_id))

\* get answering as get_or_create does
get_creating(store, session_id) ==
    [store |-> get_or_create(store, session_id), found |-> TRUE]

\* lines 38-40: the store after the call, and whether a session was returned
get(store, session_id) ==
    [store |-> store, found |-> session_id \in DOMAIN store]

\* The message inserted at the front of the list
add_message_front(store, session_id, sender, text, timestamp) ==
    [get_or_create(store, session_id) EXCEPT
        ![session_id].messages =
            <<[sender |-> sender, text |-> text, timestamp |-> timestamp]>> \o @]

\* lines 42-49
add_message(store, session_id, sender, text, timestamp) ==
    [get_or_create(store, session_id) EXCEPT
        ![session_id].messages =
            Append(@, [sender |-> sender, text |-> text, timestamp |-> timestamp])]

mark_scam_detected(store, session_id, confidence) ==
    [get_or_create(store, session_id) EXCEPT
        ![session_id].scam_detected = TRUE,
        ![session_id].scam_confidence = confidence]

RECURSIVE Orders(_)
\* The lists list(set(...)) can return for a set: its elements once each,
\* in an order the hash table decides.
Orders(S) ==
    IF S = {} THEN {<<>>}
    ELSE UNION {{<<x>> \o l : l \in Orders(S \ {x})} : x \in S}

\* The new lists assigned without the old ones
MergedIntelligence_assign(old, new) ==
    {[bankAccounts |-> b, upiIds |-> u, phishingLinks |-> l,
      phoneNumbers |-> p, suspiciousKeywords |-> k] :
        b \in Orders(new.bankAccounts),
        u \in Orders(new.upiIds),
        l \in Orders(new.phishingLinks),
        p \in Orders(new.phoneNumbers),
        k \in Orders(new.suspiciousKeywords)}

\* The phone numbers assigned without the old ones
MergedIntelligence_phone(old, new) ==
    {[bankAccounts |-> b, upiIds |-> u, phishingLinks |-> l,
      phoneNumbers |-> p, suspiciousKeywords |-> k] :
        b \in Orders(ToSet(old.bankAccounts) \cup new.bankAccounts),
        u \in Orders(ToSet(old.upiIds) \cup new.upiIds),
        l \in Orders(ToSet(old.phishingLinks) \cup new.phishingLinks),
        p \in Orders(new.phoneNumbers),
        k \in Orders(ToSet(old.suspiciousKeywords) \cup new.suspiciousKeywords)}

\* set(old) ^ set(new) in place of the union
SymDiff(A, B) == (A \ B) \cup (B \ A)

MergedIntelligence_xor(old, new) ==
    {[bankAccounts |-> b, upiIds |-> u, phishingLinks |-> l,
      phoneNumbers |-> p, suspiciousKeywords |-> k] :
        b \in Orders(SymDiff(ToSet(old.bankAccounts), new.bankAccounts)),
        u \in Orders(SymDiff(ToSet(old.upiIds), new.upiIds)),
        l \in Orders(SymDiff(ToSet(old.phishingLinks), new.phishingLinks)),
        p \in Orders(SymDiff(ToSet(old.phoneNumbers), new.phoneNumbers)),
        k \in Orders(SymDiff(ToSet(old.suspiciousKeywords), new.suspiciousKeywords))}

\* The payment ids assigned from the new intelligence alone
MergedIntelligence_upi(old, new) ==
    {[bankAccounts |-> b, upiIds |-> u, phishingLinks |-> l,
      phoneNumbers |-> p, suspiciousKeywords |-> k] :
        b \in Orders(ToSet(old.bankAccounts) \cup new.bankAccounts),
        u \in Orders(new.upiIds),
        l \in Orders(ToSet(old.phishingLinks) \cup new.phishingLinks),
        p \in Orders(ToSet(old.phoneNumbers) \cup new.phoneNumbers),
        k \in Orders(ToSet(old.suspiciousKeywords) \cup new.suspiciousKeywords)}

\* Each field list(set(old + new)): the results the call can leave in the
\* session's extracted_intelligence.
MergedIntelligence(old, new) ==
    {[bankAccounts |-> b, upiIds |-> u, phishingLinks |-> l,
      phoneNumbers |-> p, suspiciousKeywords |-> k] :
        b \in Orders(ToSet(old.bankAccounts) \cup new.bankAccounts),
        u \in Orders(ToSet(old.upiIds) \cup new.upiIds),
        l \in Orders(ToSet(old.phishingLinks) \cup new.phishingLinks),
        p \in Orders(ToSet(old.phoneNumbers) \cup new.phoneNumbers),
        k \in Orders(ToSet(old.suspiciousKeywords) \cup new.suspiciousKeywords)}

\* merged: the one of MergedIntelligence the hash order gives
update_intelligence(store, session_id, merged) ==
    [get_or_create(store, session_id) EXCEPT
        ![session_id].extracted_intelligence = merged]

set_agent_notes(store, session_id, notes) ==
    [get_or_create(store, session_id) EXCEPT ![session_id].agent_notes = notes]

\* The flag left as it is
mark_callback_sent_skip(store, session_id) == get_or_create(store, session_id)

mark_callback_sent(store, session_id) ==
    [get_or_create(store, session_id) EXCEPT ![session_id].callback_sent = TRUE]

delete(store, session_id) ==
    [id \in DOMAIN store \ {session_id} |-> store[id]]

(***************************************************************************)
(* guvi_callback.py                                                        *)
(***************************************************************************)
GUVICallbackPayload(session_id, scam_detected, total, intelligence, agent_notes) ==
    [sessionId |-> session_id,
     scamDetected |-> scam_detected,
     totalMessagesExchanged |-> total,
     extractedIntelligence |-> intelligence,
     agentNotes |-> agent_notes]

\* How the POST can end: the endpoint's status code, or an exception.  With
\* status 200 the body is parsed as JSON (line 49); a body that is none
\* raises, and the handler of line 58 answers as for any other exception.
PostOutcomes == {"200", "200 not json", "500", "timeout", "error"}

\* the endpoint answered with HTTP 200
Accepted(outcome) == outcome \in {"200", "200 not json"}

\* Success reported for every answer of the endpoint, whatever its status
CallbackSuccess_answered(outcome) == outcome \in {"200", "200 not json", "500"}

\* send_final_result's "success"
CallbackSuccess(outcome) == outcome = "200"

(***************************************************************************)
(* The requests and the oracles' answers the specifications draw from.     *)
(***************************************************************************)
\* the key the server is configured with (main.py line 74)
API_SECRET_KEY == "secret"

Message(sender, text, timestamp) ==
    [sender |-> sender, text |-> text, timestamp |-> timestamp]

Timestamps == {1000}

\* three intelligence categories in one message
TextRich == "pay 123456789012 upi john@ybl call 9876543210"
\* two categories
TextTwo == "pay 123456789012 or call 9876543210"
\* one category
TextUpi == "my upi is john@ybl"
TextLink == "visit http://evil.com/login."
\* none, with scam vocabulary
TextPlain == "kyc update pending"

History(texts) == [i \in DOMAIN texts |-> Message("scammer", texts[i], 1000)]

RequestsOver(keys, ids, texts, histories) ==
    {[x_api_key |-> k, sessionId |-> id, message |-> Message("scammer", t, ts),
      conversationHistory |-> h] :
        k \in keys, id \in ids, t \in texts, ts \in Timestamps, h \in histories}

\* what lines 100-110 can parse from the classifier's answer, or its failure
LlmAnswers ==
    {[ok |-> FALSE, is_scam |-> FALSE, confidence |-> 0],
     [ok |-> TRUE, is_scam |-> TRUE, confidence |-> 90],
     [ok |-> TRUE, is_scam |-> FALSE, confidence |-> 20]}

\* the generator's completion, or its failure
GenAnswers ==
    {[ok |-> FALSE, content |-> ""],
     [ok |-> TRUE, content |-> "Reply: \"Oh no! Which bank account is this about? SBI or ICICI?\""],
     [ok |-> TRUE, content |-> "Haan ji"]}

\* the requests of Spec
Requests ==
    RequestsOver({API_SECRET_KEY, "wrong"}, {"s1", "s2", ""},
                 {TextRich, ""}, {<<>>})

\* the requests of SeqSpec
SeqRequests ==
    RequestsOver({API_SECRET_KEY}, {"s1"}, {TextPlain},
                 {<<>>, History(<<TextTwo>>), History(<<TextUpi>>),
                  History(<<TextLink>>)})
    \cup RequestsOver({API_SECRET_KEY, "wrong"}, {"s1", "", " "},
                      {TextPlain, "", " \t"}, {<<>>})

AllRequests == Requests \cup SeqRequests

\* lines 143-159: the request's history with its message appended
FullHistory(request) == Append(request.conversationHistory, request.message)

\* extract_all over the transcripts of these requests, each computed once
ExtractedOf == {<<FullHistory(q), extract_all(FullHistory(q))>> : q \in AllRequests}

\* extract_all(h), read from ExtractedOf
Extracted(h) == (CHOOSE e \in ExtractedOf : e[1] = h)[2]

(***************************************************************************)
(* main.py: POST /analyze.  A request slot runs the coroutine of one       *)
(* request at a time.  The classifier and the generator are called with    *)
(* the synchronous Groq client, so the coroutine keeps the event loop      *)
(* from its first line to `await client.post` in send_final_result, its    *)
(* only suspension point, and from its resumption to its return.           *)
(***************************************************************************)
Slots == 1..MaxInflight

NoRequest ==
    [x_api_key |-> "", sessionId |-> "", message |-> Message("", "", 0),
     conversationHistory |-> <<>>]

NoPayload == GUVICallbackPayload("", FALSE, 0, EmptyIntelligence, "")

\* The locals of analyze_message, and what the request has done so far.
Idle ==
    [request |-> NoRequest,
     full_history |-> <<>>,
     consulted |-> FALSE,      \* scam_detector.detect was called
     agent_reply |-> "",
     should_end |-> FALSE,
     end_reason |-> "",
     dispatched |-> FALSE,     \* send_final_result was called
     payload |-> NoPayload]

NoBody ==
    [status |-> "", reply |-> "", sessionId |-> "", scamDetected |-> FALSE,
     extractedIntelligence |-> EmptyIntelligence,
     totalMessagesExchanged |-> 0, conversationStage |-> 0]

NoResponse == [status_code |-> 0, detail |-> "", body |-> NoBody]

HTTPException(status_code, detail) ==
    [status_code |-> status_code, detail |-> detail, body |-> NoBody]

NoCall == [op |-> "none"]

SessionOf(r) == sessions[req[r].request.sessionId]

RECURSIVE TotalMessages(_)
\* the messages stored over all sessions
TotalMessages(store) ==
    IF DOMAIN store = {} THEN 0
    ELSE LET id == CHOOSE id \in DOMAIN store : TRUE
         IN  Len(store[id].messages)
             + TotalMessages([i \in DOMAIN store \ {id} |-> store[i]])

\* `not session_id` alone, without the strip
InvalidSessionId_empty(session_id) == session_id = ""

\* line 126
InvalidSessionId(session_id) == IsBlank(session_id)

\* line 133
InvalidText(text) == IsBlank(text)

\* verify_api_key
Unauthorized(r, request) ==
    /\ pc[r] = "idle" /\ running = 0
    /\ request.x_api_key # API_SECRET_KEY
    /\ response' = [response EXCEPT ![r] = HTTPException(401, "Invalid API key")]
    /\ UNCHANGED <<sessions, pc, req, running, reports, call>>

\* lines 126-130
RejectSessionId(r, request) ==
    /\ pc[r] = "idle" /\ running = 0
    /\ request.x_api_key = API_SECRET_KEY
    /\ InvalidSessionId(request.sessionId)
    /\ response' = [response EXCEPT ![r] =
           HTTPException(400, "sessionId is required and cannot be empty")]
    /\ UNCHANGED <<sessions, pc, req, running, reports, call>>

\* lines 133-137
RejectText(r, request) ==
    /\ pc[r] = "idle" /\ running = 0
    /\ request.x_api_key = API_SECRET_KEY
    /\ ~InvalidSessionId(request.sessionId)
    /\ InvalidText(request.message.text)
    /\ response' = [response EXCEPT ![r] =
           HTTPException(400, "message.text is required and cannot be empty")]
    /\ UNCHANGED <<sessions, pc, req, running, reports, call>>

\* The caller's conversationHistory stored along with the message
Accept_with_history(r, request, limit) ==
    /\ pc[r] = "idle" /\ running = 0
    /\ request.x_api_key = API_SECRET_KEY
    /\ ~InvalidSessionId(request.sessionId)
    /\ ~InvalidText(request.message.text)
    /\ TotalMessages(sessions) + 2 <= limit
    /\ sessions' = [get_or_create(sessions, request.sessionId)
                       EXCEPT ![request.sessionId].messages =
                                  @ \o FullHistory(request)]
    /\ req' = [req EXCEPT ![r] =
           [Idle EXCEPT !.request = request,
                        !.full_history = FullHistory(request)]]
    /\ pc' = [pc EXCEPT ![r] = "detect"]
    /\ running' = r
    /\ response' = [response EXCEPT ![r] = NoResponse]
    /\ UNCHANGED <<reports, call>>

\* lines 140-159; limit bounds the messages the model stores
Accept(r, request, limit) ==
    /\ pc[r] = "idle" /\ running = 0
    /\ request.x_api_key = API_SECRET_KEY
    /\ ~InvalidSessionId(request.sessionId)
    /\ ~InvalidText(request.message.text)
    /\ TotalMessages(sessions) + 2 <= limit
    /\ sessions' = add_message(get_or_create(sessions, request.sessionId),
                               request.sessionId, request.message.sender,
                               request.message.text, request.message.timestamp)
    /\ req' = [req EXCEPT ![r] =
           [Idle EXCEPT !.request = request,
                        !.full_history = FullHistory(request)]]
    /\ pc' = [pc EXCEPT ![r] = "detect"]
    /\ running' = r
    /\ response' = [response EXCEPT ![r] = NoResponse]
    /\ UNCHANGED <<reports, call>>

\* The handler's first lines, for one request
Start(r, request, limit) ==
    \/ Unauthorized(r, request)
    \/ RejectSessionId(r, request)
    \/ RejectText(r, request)
    \/ Accept(r, request, limit)

\* The detection run on every request
NeedsDetection_always(session) == TRUE

\* line 162
NeedsDetection(session) == ~session.scam_detected

\* lines 162-172, the classifier consulted
Detect(r, llm) ==
    /\ pc[r] = "detect"
    /\ NeedsDetection(SessionOf(r))
    /\ LET detection_result == detect(req[r].request.message.text, llm)
       IN  sessions' = IF detection_result.is_scam
                       THEN mark_scam_detected(sessions, req[r].request.sessionId,
                                               detection_result.confidence)
                       ELSE sessions
    /\ req' = [req EXCEPT ![r].consulted = TRUE]
    /\ pc' = [pc EXCEPT ![r] = "extract"]
    /\ UNCHANGED <<running, response, reports, call>>

\* line 162, the scam already detected
DetectSkip(r) ==
    /\ pc[r] = "detect"
    /\ ~NeedsDetection(SessionOf(r))
    /\ pc' = [pc EXCEPT ![r] = "extract"]
    /\ UNCHANGED <<sessions, req, running, response, reports, call>>

\* lines 175-176
Extract(r) ==
    /\ pc[r] = "extract"
    /\ \E merged \in MergedIntelligence(SessionOf(r).extracted_intelligence,
                                        Extracted(req[r].full_history)) :
          sessions' = update_intelligence(sessions, req[r].request.sessionId, merged)
    /\ pc' = [pc EXCEPT ![r] = "generate"]
    /\ UNCHANGED <<req, running, response, reports, call>>

\* lines 179-192; now is int(time.time() * 1000)
Generate(r, gen, now) ==
    /\ pc[r] = "generate"
    /\ \E agent_reply \in generate_response(req[r].full_history, gen) :
          /\ sessions' = add_message(sessions, req[r].request.sessionId,
                                     "user", agent_reply, now)
          /\ req' = [req EXCEPT ![r].agent_reply = agent_reply]
    /\ pc' = [pc EXCEPT ![r] = "policy"]
    /\ UNCHANGED <<running, response, reports, call>>

\* The guard of line 202 without the session's scam_detected
ShouldReport_any(session, should_end) ==
    should_end /\ ~session.callback_sent

\* The reported flag read without its negation
ShouldReport_sent(session, should_end) ==
    should_end /\ session.scam_detected /\ session.callback_sent

\* line 202
ShouldReport(session, should_end) ==
    should_end /\ session.scam_detected /\ ~session.callback_sent

\* lines 195-217: the policy says stop, the report is built and the POST
\* awaited; the coroutine is suspended and the event loop is free
EvaluateDispatch(r) ==
    /\ pc[r] = "policy"
    /\ LET session_id == req[r].request.sessionId
           session == sessions[session_id]
           verdict == should_end_conversation(session.messages,
                                              session.extracted_intelligence)
           agent_notes == generate_agent_notes(session.messages,
                                               session.extracted_intelligence)
       IN  /\ ShouldReport(session, verdict[1])
           /\ sessions' = set_agent_notes(sessions, session_id, agent_notes)
           /\ req' = [req EXCEPT
                  ![r].should_end = verdict[1],
                  ![r].end_reason = verdict[2],
                  ![r].dispatched = TRUE,
                  ![r].payload = GUVICallbackPayload(session_id,
                      session.scam_detected, total_messages(session),
                      session.extracted_intelligence, agent_notes)]
    /\ pc' = [pc EXCEPT ![r] = "callback"]
    /\ running' = 0
    /\ UNCHANGED <<response, reports, call>>

\* lines 195-202: nothing to report
EvaluateContinue(r) ==
    /\ pc[r] = "policy"
    /\ LET session == SessionOf(r)
           verdict == should_end_conversation(session.messages,
                                              session.extracted_intelligence)
       IN  /\ ~ShouldReport(session, verdict[1])
           /\ req' = [req EXCEPT ![r].should_end = verdict[1],
                                 ![r].end_reason = verdict[2]]
    /\ pc' = [pc EXCEPT ![r] = "respond"]
    /\ UNCHANGED <<sessions, running, response, reports, call>>

\* the answers with HTTP 200 whose body was no JSON
BadBodies == Cardinality({i \in DOMAIN reports : ~reports[i].success})

\* guvi_callback.py lines 39-63 and main.py lines 219-223: the POST ends and
\* the coroutine resumes once the event loop is free
CallbackReturn(r, outcome) ==
    /\ pc[r] = "callback" /\ running = 0
    /\ outcome = "200 not json" => BadBodies < MaxBadBodies
    /\ reports' = IF Accepted(outcome)
                  THEN Append(reports, [payload |-> req[r].payload,
                                        success |-> CallbackSuccess(outcome)])
                  ELSE reports
    /\ sessions' = IF CallbackSuccess(outcome)
                   THEN mark_callback_sent(sessions, req[r].request.sessionId)
                   ELSE sessions
    /\ pc' = [pc EXCEPT ![r] = "respond"]
    /\ running' = r
    /\ UNCHANGED <<req, response, call>>

\* lines 226-252
Respond(r) ==
    /\ pc[r] = "respond"
    /\ LET session == SessionOf(r)
       IN  response' = [response EXCEPT ![r] =
              [status_code |-> 200, detail |-> "",
               body |-> [status |-> "success",
                         reply |-> req[r].agent_reply,
                         sessionId |-> req[r].request.sessionId,
                         scamDetected |-> session.scam_detected,
                         extractedIntelligence |-> session.extracted_intelligence,
                         totalMessagesExchanged |-> total_messages(session),
                         conversationStage |-> StageOf(total_messages(session))]]]
    /\ pc' = [pc EXCEPT ![r] = "idle"]
    /\ req' = [req EXCEPT ![r] = Idle]
    /\ running' = 0
    /\ UNCHANGED <<sessions, reports, call>>

Init ==
    /\ sessions = <<>>
    /\ pc = [r \in Slots |-> "idle"]
    /\ req = [r \in Slots |-> Idle]
    /\ running = 0
    /\ response = [r \in Slots |-> NoResponse]
    /\ reports = <<>>
    /\ call = NoCall

\* The steps of the server over the given slots and inputs
Serve(slots, requests, llms, gens, limit) ==
    \/ \E r \in slots, request \in requests : Start(r, request, limit)
    \/ \E r \in slots, llm \in llms : Detect(r, llm)
    \/ \E r \in slots : DetectSkip(r)
    \/ \E r \in slots : Extract(r)
    \/ \E r \in slots, gen \in gens, now \in Timestamps : Generate(r, gen, now)
    \/ \E r \in slots : EvaluateDispatch(r)
    \/ \E r \in slots : EvaluateContinue(r)
    \/ \E r \in slots, outcome \in PostOutcomes : CallbackReturn(r, outcome)
    \/ \E r \in slots : Respond(r)

(***************************************************************************)
(* Spec: requests of two sessions served concurrently.                     *)
(***************************************************************************)

Next == Serve(Slots, Requests, LlmAnswers, GenAnswers, MaxMessages)

Spec == Init /\ [][Next]_vars

(***************************************************************************)
(* SeqSpec: the requests of one session served one after another, far      *)
(* enough for the message counts the termination policy names.             *)
(***************************************************************************)

SeqLlmAnswers ==
    {a \in LlmAnswers : a.ok} \cup {[ok |-> TRUE, is_scam |-> TRUE, confidence |-> 70]}

SeqGenAnswers == {g \in GenAnswers : g.ok /\ ~IsTruncated(CleanReply(g.content))}

SeqNext == Serve({1}, SeqRequests, SeqLlmAnswers, SeqGenAnswers, MaxSeqMessages)

SeqSpec == Init /\ [][SeqNext]_vars

(***************************************************************************)
(* OracleSpec: the requests of two sessions served one after another,      *)
(* each oracle answering or failing.                                       *)
(***************************************************************************)

OracleRequests ==
    RequestsOver({API_SECRET_KEY, "wrong"}, {"s1", "s2", ""},
                 {TextPlain, TextRich, ""}, {<<>>})

OracleNext == Serve({1}, OracleRequests, LlmAnswers, GenAnswers, MaxMessages)

OracleSpec == Init /\ [][OracleNext]_vars

(***************************************************************************)
(* SpecPolicy: should_end_conversation called alone, over every message    *)
(* count up to MaxPolicyMessages and every emptiness of the five fields.   *)
(* call records the arguments and what the function returned.              *)
(***************************************************************************)
PolicyHistory(n) == [i \in 1..n |-> Message("scammer", "hello", 1000)]

PolicyIntelligence ==
    {[bankAccounts |-> b, upiIds |-> u, phishingLinks |-> l,
      phoneNumbers |-> p, suspiciousKeywords |-> k] :
        b \in {<<>>, <<"123456789012">>},
        u \in {<<>>, <<"john@ybl">>},
        l \in {<<>>, <<"http://evil.com/login">>},
        p \in {<<>>, <<"+919876543210">>},
        k \in {<<>>, <<"otp", "kyc">>}}

CallShouldEnd(n, intelligence) ==
    /\ call' = [op |-> "should_end_conversation",
                msg_count |-> n,
                intelligence |-> intelligence,
                result |-> should_end_conversation(PolicyHistory(n), intelligence)]
    /\ UNCHANGED <<sessions, pc, req, running, response, reports>>

PolicyNext ==
    \E n \in 0..MaxPolicyMessages, intelligence \in PolicyIntelligence :
        CallShouldEnd(n, intelligence)

SpecPolicy == Init /\ [][PolicyNext]_vars

(***************************************************************************)
(* SpecStore: the operations of SessionManager called directly, and the    *)
(* session introspection endpoint that reads the store, up to              *)
(* MaxStoreCalls calls.  call records the last call: its operation and     *)
(* arguments, how many calls were made, and for update_intelligence the    *)
(* session's fields (as sets) before it and whether it repeats the call    *)
(* before it.                                                              *)
(***************************************************************************)
StoreIds == {"s1", "s2"}

StoreIntelligence ==
    {[bankAccounts |-> b, upiIds |-> u, phishingLinks |-> {},
      phoneNumbers |-> {}, suspiciousKeywords |-> k] :
        b \in {{}, {"123456789012"}, {"123456789012", "998877665544"}},
        u \in {{}, {"john@ybl"}},
        k \in {{}, {"otp"}}}

AsSets(intelligence) ==
    [bankAccounts |-> ToSet(intelligence.bankAccounts),
     upiIds |-> ToSet(intelligence.upiIds),
     phishingLinks |-> ToSet(intelligence.phishingLinks),
     phoneNumbers |-> ToSet(intelligence.phoneNumbers),
     suspiciousKeywords |-> ToSet(intelligence.suspiciousKeywords)]

Calls == IF call.op = "none" THEN 0 ELSE call.calls

Called(op, session_id) ==
    /\ Calls < MaxStoreCalls
    /\ call' = [op |-> op, session_id |-> session_id, calls |-> Calls + 1]
    /\ UNCHANGED <<pc, req, running, response, reports>>

CallGetOrCreate(session_id) ==
    /\ sessions' = get_or_create(sessions, session_id)
    /\ Called("get_or_create", session_id)

CallAddMessage(session_id, sender, text, timestamp) ==
    /\ sessions' = add_message(sessions, session_id, sender, text, timestamp)
    /\ Called("add_message", session_id)

CallMarkScamDetected(session_id, confidence) ==
    /\ sessions' = mark_scam_detected(sessions, session_id, confidence)
    /\ Called("mark_scam_detected", session_id)

CallUpdateIntelligence(session_id, intelligence) ==
    /\ Calls < MaxStoreCalls
    /\ LET old == get_or_create(sessions, session_id)[session_id].extracted_intelligence
       IN  /\ \E merged \in MergedIntelligence(old, intelligence) :
                 sessions' = update_intelligence(sessions, session_id, merged)
           /\ call' = [op |-> "update_intelligence",
                       session_id |-> session_id,
                       calls |-> Calls + 1,
                       intelligence |-> intelligence,
                       before |-> AsSets(old),
                       again |-> /\ call.op = "update_intelligence"
                                 /\ call.session_id = session_id
                                 /\ call.intelligence = intelligence]
    /\ UNCHANGED <<pc, req, running, response, reports>>

CallSetAgentNotes(session_id, notes) ==
    /\ sessions' = set_agent_notes(sessions, session_id, notes)
    /\ Called("set_agent_notes", session_id)

CallMarkCallbackSent(session_id) ==
    /\ sessions' = mark_callback_sent(sessions, session_id)
    /\ Called("mark_callback_sent", session_id)

CallDelete(session_id) ==
    /\ sessions' = delete(sessions, session_id)
    /\ Called("delete", session_id)

\* main.py lines 72-85 and 255-273: GET /session/{session_id}
GetSessionInfo(x_api_key, session_id) ==
    /\ Calls < MaxStoreCalls
    /\ IF x_api_key # API_SECRET_KEY
       THEN /\ sessions' = sessions
            /\ response' = [response EXCEPT
                   ![1] = HTTPException(401, "Invalid API key")]
       ELSE LET got == get(sessions, session_id)
            IN  /\ sessions' = got.store
                /\ response' = [response EXCEPT ![1] =
                       IF ~got.found
                       THEN HTTPException(404, "Session not found")
                       ELSE LET session == got.store[session_id]
                            IN  [status_code |-> 200, detail |-> "",
                                 body |-> [
                                   session_id |-> session.session_id,
                                   scam_detected |-> session.scam_detected,
                                   scam_confidence |-> session.scam_confidence,
                                   total_messages |-> total_messages(session),
                                   callback_sent |-> session.callback_sent,
                                   extracted_intelligence |->
                                       session.extracted_intelligence,
                                   agent_notes |-> session.agent_notes]]]
    /\ call' = [op |-> "get_session_info", session_id |-> session_id,
                calls |-> Calls + 1]
    /\ UNCHANGED <<pc, req, running, reports>>

StoreNext ==
    \E session_id \in StoreIds :
        \/ \E x_api_key \in {API_SECRET_KEY, "wrong"} :
              GetSessionInfo(x_api_key, session_id)
        \/ CallGetOrCreate(session_id)
        \/ CallAddMessage(session_id, "scammer", TextPlain, 1000)
        \/ CallMarkScamDetected(session_id, 62)
        \/ \E intelligence \in StoreIntelligence :
              CallUpdateIntelligence(session_id, intelligence)
        \/ CallSetAgentNotes(session_id, "Scam type: Financial fraud attempt.")
        \/ CallMarkCallbackSent(session_id)
        \/ CallDelete(session_id)

SpecStore == Init /\ [][StoreNext]_vars

(***************************************************************************)
(* SpecExtract: the extractors and generate_agent_notes called alone, on   *)
(* texts joined from up to MaxPieces pieces, one call in a behaviour.  call *)
(* records it: its operation, its text, what the text was joined from,     *)
(* its result.                                                             *)
(***************************************************************************)
RECURSIVE Interleave(_, _)
\* parts[1] seps[1] parts[2] ... as one string
Interleave(parts, seps) ==
    IF Len(parts) = 1 THEN parts[1]
    ELSE parts[1] \o seps[1] \o Interleave(Tail(parts), Tail(seps))

\* the texts of up to n pieces of P joined by separators of S
TextsOver(P, S, n) ==
    UNION {{[parts |-> parts, text |-> Interleave(parts, seps)] :
              parts \in [1..k -> P], seps \in [1..(k - 1) -> S]} : k \in 1..n}

\* a keyword that names a scam type, two that name none, a word outside
\* the vocabulary, and two phone numbers
NotesTerms ==
    {"otp", "terminated", "identity", "hello", "9876543210", "9123456789"}

\* digit runs of 8 to 19 digits, phone-like or not, and a grouped card
\* number; joined by a space, by nothing (one longer run) or by a letter
BankPieces ==
    {"12345678", "123456789", "9876543210", "1234567890", "919876543210",
     "911234567890", "123456789012345678", "1234567890123456789",
     "1234 5678 9012 3456"}

BankSeps == {" ", "", "a"}

\* 10-digit subscriber numbers whose first digit is 6 to 9
Subscribers ==
    {first \o rest :
        first \in {"6", "7", "8", "9"},
        rest \in {"876543210", "198765432", "000000000", "123456789",
                  "091987654", "999999999", "100000000", "912345678"}}

\* the surface forms of a subscriber number
PhoneForms(d) ==
    {"+91" \o d,
     "+91 " \o d,
     "+91 " \o SubSeq(d, 1, 5) \o " " \o SubSeq(d, 6, 10),
     "+91-" \o SubSeq(d, 1, 5) \o "-" \o SubSeq(d, 6, 10),
     "91" \o d,
     "0" \o d,
     d}

\* handle@suffix tokens: payment handles, and addresses with a listed
\* top-level domain or provider name
UpiTokens ==
    {"john@ybl", "a.b@okaxis", "x-1@paytm", "John@YBL",
     "john@gmail.com", "raj@sbi.co", "john@upi.in", "sam@yahoo.co.in",
     "bob@mymailbox", "amy@olive"}

UpiSeps == {" ", ". "}

\* The notes of a one-message session: the intelligence is what
\* update_intelligence leaves in the session after extract_all
CallGenerateAgentNotes(input) ==
    LET messages == <<Message("scammer", input.text, 1000)>>
        found == extract_all(messages)
    IN  /\ call = NoCall
        /\ \E intelligence \in MergedIntelligence(EmptyIntelligence, found) :
              call' = [op |-> "generate_agent_notes",
                       text |-> input.text,
                       keywords |-> found.suspiciousKeywords,
                       intelligence |-> intelligence,
                       result |-> generate_agent_notes(messages, intelligence)]
        /\ UNCHANGED <<sessions, pc, req, running, response, reports>>

CallExtractBankAccounts(input) ==
    /\ call = NoCall
    /\ call' = [op |-> "extract_bank_accounts", text |-> input.text,
                result |-> extract_bank_accounts(input.text)]
    /\ UNCHANGED <<sessions, pc, req, running, response, reports>>

CallExtractPhoneNumbers(d, text) ==
    /\ call = NoCall
    /\ call' = [op |-> "extract_phone_numbers", text |-> text, d |-> d,
                result |-> extract_phone_numbers(text)]
    /\ UNCHANGED <<sessions, pc, req, running, response, reports>>

CallExtractUpiIds(input) ==
    /\ call = NoCall
    /\ call' = [op |-> "extract_upi_ids",
                text |-> "pay " \o input.text \o ".",
                tokens |-> ToSet(input.parts),
                result |-> extract_upi_ids("pay " \o input.text \o ".")]
    /\ UNCHANGED <<sessions, pc, req, running, response, reports>>

ExtractNext ==
    \/ \E input \in TextsOver(NotesTerms, {" and "}, MaxPieces) :
          CallGenerateAgentNotes(input)
    \/ \E input \in TextsOver(BankPieces, BankSeps, MaxPieces) :
          CallExtractBankAccounts(input)
    \/ \E d \in Subscribers :
          \E text \in PhoneForms(d) : CallExtractPhoneNumbers(d, text)
    \/ \E input \in TextsOver(UpiTokens, UpiSeps, MaxPieces) :
          CallExtractUpiIds(input)

SpecExtract == Init /\ [][ExtractNext]_vars

(***************************************************************************)
(* Properties.                                                             *)
(***************************************************************************)
\* the dispatches of a session's report that succeeded
ReportsOf(session_id) ==
    Cardinality({i \in DOMAIN reports :
                    /\ reports[i].payload.sessionId = session_id
                    /\ reports[i].success})

\* the policy's decision on a session as it stands
Stop(session) ==
    should_end_conversation(session.messages, session.extracted_intelligence)[1]

\* C1: with the requests of a session served one after another, the final
\* report is accepted at most once, and no request is dispatching a report
\* for a session whose callback_sent is already true, however often the
\* policy says stop afterwards.
C1_DispatchedAtMostOnce ==
    /\ \A id \in DOMAIN sessions : ReportsOf(id) <= 1
    /\ \A r \in Slots :
          pc[r] = "callback" => ~SessionOf(r).callback_sent

\* a later request of a reported session: the policy says stop again and
\* nothing is dispatched
C1_Witness ==
    /\ pc[1] = "respond"
    /\ SessionOf(1).callback_sent
    /\ req[1].should_end /\ ~req[1].dispatched
    /\ ReportsOf(req[1].request.sessionId) = 1

\* C2: with two requests of one session in flight, interleaved at the
\* suspension point of the report call, the flag is checked and set
\* atomically: the endpoint accepts at most one report per session.
C2_ReportedOnceConcurrently ==
    \A id \in DOMAIN sessions : ReportsOf(id) < 2

\* the four categories that are non-empty
Categories(intelligence) ==
    Cardinality({f \in {"bankAccounts", "upiIds", "phoneNumbers", "phishingLinks"} :
                    intelligence[f] # <<>>})

PolicyCalled == call.op = "should_end_conversation"

\* C3: should_end_conversation says stop exactly when the message count is
\* at least 20, or at least three of the four categories are non-empty, or
\* at least two are and the count is at least 10; the keywords have no part
\* in it.
C3_StopExactlyWhen ==
    PolicyCalled =>
        (call.result[1] <=>
            \/ call.msg_count >= 20
            \/ Categories(call.intelligence) >= 3
            \/ Categories(call.intelligence) >= 2 /\ call.msg_count >= 10)

\* ten messages, two categories and keywords: stop
C3_Witness ==
    /\ PolicyCalled
    /\ call.msg_count = 10
    /\ Categories(call.intelligence) = 2
    /\ call.intelligence.suspiciousKeywords # <<>>
    /\ call.result[1]

\* C4: below 20 messages, three or more non-empty categories give the
\* reason "rich intelligence extracted" (letter case aside), at counts of
\* 10 or more too, and "sufficient intelligence extracted" is given only
\* with exactly two categories.
C4_RichReason ==
    (PolicyCalled /\ call.msg_count < 20) =>
        /\ Categories(call.intelligence) >= 3 =>
              Lower(call.result[2]) = "rich intelligence extracted"
        /\ Lower(call.result[2]) = "sufficient intelligence extracted" =>
              Categories(call.intelligence) = 2

\* C5: once the policy says stop for a session it says stop ever after.
C5_StopIsOneWay ==
    [][\A id \in DOMAIN sessions :
          Stop(sessions[id]) => id \in DOMAIN sessions' /\ Stop(sessions'[id])]_vars

\* a request that ends with stop by the message ceiling, in a session an
\* earlier request had already closed and reported
C5_Witness ==
    /\ pc[1] = "respond"
    /\ req[1].should_end
    /\ req[1].end_reason = "Maximum message count reached"
    /\ SessionOf(1).callback_sent /\ ~req[1].dispatched

\* C6 as stated: a request whose policy evaluation says stop while the
\* session's callback_sent is false builds the notes and dispatches.
C6_DispatchWhenStop ==
    \A r \in Slots :
        (pc[r] = "respond" /\ req[r].should_end /\ ~SessionOf(r).callback_sent)
            => req[r].dispatched

\* C6 amended: a request whose policy evaluation says stop while the
\* session's scam_detected is true and its callback_sent is false builds
\* the notes, stores them and dispatches a report that carries them.
C6_DispatchWhenStopAndScam ==
    \A r \in Slots :
        (/\ pc[r] = "respond" /\ req[r].should_end
         /\ SessionOf(r).scam_detected /\ ~SessionOf(r).callback_sent)
            => /\ req[r].dispatched
               /\ req[r].payload.agentNotes =
                     generate_agent_notes(SessionOf(r).messages,
                                          SessionOf(r).extracted_intelligence)
               /\ SessionOf(r).agent_notes = req[r].payload.agentNotes

\* the report was dispatched and the endpoint refused it
C6_Witness ==
    /\ pc[1] = "respond" /\ req[1].should_end /\ req[1].dispatched
    /\ SessionOf(1).scam_detected /\ ~SessionOf(1).callback_sent
    /\ SessionOf(1).agent_notes # ""

IntelligenceFields ==
    {"bankAccounts", "upiIds", "phishingLinks", "phoneNumbers", "suspiciousKeywords"}

\* C7: no step takes an element out of any of the five fields of a
\* session's extracted_intelligence.
C7_IntelligenceNeverShrinks ==
    [][\A id \in DOMAIN sessions :
          /\ id \in DOMAIN sessions'
          /\ \A f \in IntelligenceFields :
                ToSet(sessions[id].extracted_intelligence[f])
                    \subseteq ToSet(sessions'[id].extracted_intelligence[f])]_vars

\* the merge of a request that brought no bank account and no phone
\* number into a session that holds both
C7_Witness ==
    /\ pc[1] = "generate"
    /\ extract_all(req[1].full_history).bankAccounts = {}
    /\ extract_all(req[1].full_history).phoneNumbers = {}
    /\ SessionOf(1).extracted_intelligence.bankAccounts # <<>>
    /\ SessionOf(1).extracted_intelligence.phoneNumbers # <<>>

\* C8: scam_detected, once true, stays true and scam_confidence keeps its
\* value; a request that finds it true does not call the classifier.
C8_ScamDetectedWriteOnce ==
    [][/\ \A id \in DOMAIN sessions :
            sessions[id].scam_detected =>
                /\ id \in DOMAIN sessions'
                /\ sessions'[id].scam_detected
                /\ sessions'[id].scam_confidence = sessions[id].scam_confidence
       /\ \A r \in Slots :
            (pc[r] = "detect" /\ pc'[r] = "extract" /\ SessionOf(r).scam_detected)
                => ~req'[r].consulted]_vars

\* a request past the detection step of a session already marked, the
\* classifier not called
C8_Witness ==
    /\ pc[1] = "extract"
    /\ SessionOf(1).scam_detected
    /\ ~req[1].consulted

\* C9: update_intelligence called a second time with the same intelligence
\* leaves each of the five fields, as a set, as the first call left it.
C9_MergeIdempotent ==
    (call.op = "update_intelligence" /\ call.again) =>
        AsSets(sessions[call.session_id].extracted_intelligence) = call.before

\* the second of two equal calls, on a session that held something else
\* before
C9_Witness ==
    /\ call.op = "update_intelligence" /\ call.again
    /\ call.intelligence.bankAccounts # {}
    /\ call.before.upiIds # {} /\ call.intelligence.upiIds = {}

\* the requests of SeqSpec with an empty or blank sessionId or message text
BlankRequests ==
    {q \in SeqRequests : IsBlank(q.sessionId) \/ IsBlank(q.message.text)}

\* C10: a request whose sessionId or message text is empty or blank is
\* answered with a 4xx status and leaves the session store as it was.
C10_BlankRejected ==
    [][pc[1] = "idle" =>
          \A request \in BlankRequests :
              Start(1, request, MaxSeqMessages)
                  => /\ sessions' = sessions
                     /\ response'[1].status_code \in 400..499]_vars

\* a blank request rejected while the store holds a session
C10_Witness ==
    /\ response[1].status_code = 400
    /\ "s1" \in DOMAIN sessions
    /\ pc[1] = "idle"

\* C11: a dispatch that fails (a status other than 200, a timeout, an
\* exception) leaves the session's reported flag false; the next request of
\* a session whose dispatch failed (its notes are written at line 208, only
\* when a dispatch is attempted, and its flag is still false) dispatches
\* again; and a request dispatches only if it has not dispatched before.
C11_FailedDispatchRetried ==
    [][/\ \A outcome \in PostOutcomes \ {"200"} :
            CallbackReturn(1, outcome) =>
                /\ ~sessions'[req[1].request.sessionId].callback_sent
                /\ pc'[1] = "respond"
       /\ (/\ pc[1] = "policy"
           /\ SessionOf(1).agent_notes # ""
           /\ ~SessionOf(1).callback_sent)
          => pc'[1] = "callback" /\ req'[1].dispatched
       /\ (pc[1] # "callback" /\ pc'[1] = "callback") => ~req[1].dispatched
      ]_vars

\* A request is dispatching for a session one of whose earlier dispatches,
\* with fewer messages, failed
C11_Witness ==
    /\ pc[1] = "callback"
    /\ ~SessionOf(1).callback_sent
    /\ \E i \in DOMAIN reports :
          /\ ~reports[i].success
          /\ reports[i].payload.sessionId = req[1].request.sessionId
          /\ reports[i].payload.totalMessagesExchanged
                < req[1].payload.totalMessagesExchanged

\* C12: GET /session/{id} with the right key changes no session and creates
\* none: for an identifier the store does not hold it answers 404, and for
\* one it holds it answers 200 with that session's fields.
C12_IntrospectionReadOnly ==
    [][\A session_id \in StoreIds :
          GetSessionInfo(API_SECRET_KEY, session_id) =>
            /\ sessions' = sessions
            /\ IF session_id \notin DOMAIN sessions
               THEN response'[1].status_code = 404
               ELSE /\ response'[1].status_code = 200
                    /\ response'[1].body.session_id = session_id
                    /\ response'[1].body.scam_detected
                         = sessions[session_id].scam_detected
                    /\ response'[1].body.total_messages
                         = Len(sessions[session_id].messages)
                    /\ response'[1].body.callback_sent
                         = sessions[session_id].callback_sent
                    /\ response'[1].body.extracted_intelligence
                         = sessions[session_id].extracted_intelligence
                    /\ response'[1].body.agent_notes
                         = sessions[session_id].agent_notes
      ]_vars

\* An identifier the store does not hold was queried while it held another
C12_Witness ==
    /\ call.op = "get_session_info"
    /\ response[1].status_code = 404
    /\ call.session_id \notin DOMAIN sessions
    /\ sessions # <<>>

\* C13: a classifier that fails leaves the request going on with the local
\* verdict (two keywords or one pattern); a generator that fails leaves it
\* going on with a phrase of the fallback table at the conversation's
\* stage; and every request that got past validation is answered 200 with
\* a non-empty reply and the session's intelligence.
C13_OracleFailureServed ==
    [][/\ \A llm \in {a \in LlmAnswers : ~a.ok} :
            Detect(1, llm) =>
              LET text == req[1].request.message.text
                  session_id == req[1].request.sessionId
              IN  /\ pc'[1] = "extract"
                  /\ sessions'[session_id].scam_detected
                       <=> \/ Cardinality(detect_keywords(text)) >= 2
                           \/ Cardinality(detect_patterns(text)) >= 1
       /\ \A gen \in {g \in GenAnswers : ~g.ok}, now \in Timestamps :
            Generate(1, gen, now) =>
              /\ pc'[1] = "policy"
              /\ req'[1].agent_reply # ""
              /\ req'[1].agent_reply \in
                    ToSet(stage_fallbacks[StageOf(Len(req[1].full_history))])
       /\ (pc[1] \notin {"idle", "respond"} /\ pc'[1] # pc[1]) =>
              pc'[1] \notin {"idle"}
       /\ (pc[1] = "respond" /\ pc'[1] = "idle") =>
              /\ response'[1].status_code = 200
              /\ response'[1].body.reply # ""
              /\ response'[1].body.reply = req[1].agent_reply
              /\ response'[1].body.extractedIntelligence
                   = SessionOf(1).extracted_intelligence
      ]_vars

\* A request is answered with a fallback phrase for a session the local
\* verdict marked
C13_Witness ==
    /\ response[1].status_code = 200
    /\ response[1].body.reply \in ToSet(stage_fallbacks[2])
    /\ response[1].body.scamDetected
    /\ sessions["s1"].scam_confidence = 44
    /\ response[1].body.extractedIntelligence.suspiciousKeywords # <<>>

\* C14: every step leaves each session in the store, with the transcript it
\* had as a prefix of the transcript it has.
C14_TranscriptAppendOnly ==
    [][\A session_id \in DOMAIN sessions :
          /\ session_id \in DOMAIN sessions'
          /\ Len(sessions'[session_id].messages)
                >= Len(sessions[session_id].messages)
          /\ SubSeq(sessions'[session_id].messages, 1,
                    Len(sessions[session_id].messages))
                = sessions[session_id].messages
      ]_vars

\* A transcript of two requests: each message followed by its reply
C14_Witness ==
    /\ "s1" \in DOMAIN sessions
    /\ Len(sessions["s1"].messages) >= 4
    /\ sessions["s1"].messages[1].sender = "scammer"
    /\ sessions["s1"].messages[2].sender = "user"
    /\ sessions["s1"].messages[3].sender = "scammer"
    /\ sessions["s1"].messages[4].sender = "user"

\* the stage the chain of comparisons gives a stored message count
StageAt(c) ==
    CASE c = 0 -> 1
      [] c \in 1..2 -> 2
      [] c \in 3..5 -> 3
      [] c \in 6..8 -> 4
      [] c \in 9..12 -> 5
      [] c \in 13..16 -> 6
      [] OTHER -> 7

\* C20: the conversationStage of a 200 response is in 1..7 and is the stage
\* of the session's stored message count c when the response is built (1 if
\* c = 0, 2 up to 2, 3 up to 5, 4 up to 8, 5 up to 12, 6 up to 16, else 7);
\* it is no less than the stage at the count c - 2 that the response to the
\* session's request before this one was built from.
C20_StageOfStoredCount ==
    [][(pc[1] = "respond" /\ pc'[1] = "idle") =>
          LET c == Len(SessionOf(1).messages)
              stage == response'[1].body.conversationStage
          IN  /\ response'[1].status_code = 200
              /\ response'[1].body.totalMessagesExchanged = c
              /\ stage \in 1..7
              /\ stage = StageAt(c)
              /\ c >= 4 => stage >= StageAt(c - 2)
      ]_vars

\* The first response of the last stage, after one of the stage before it
C20_Witness ==
    /\ response[1].status_code = 200
    /\ response[1].body.conversationStage = 7
    /\ response[1].body.totalMessagesExchanged = 18

\* C15: a request that is at an external call (the classifier about to be
\* consulted, the generator, the report's POST) does not hold the event
\* loop, so that a request of another session can be started meanwhile.
C15_ExternalCallsYield ==
    \A r \in Slots :
        (\/ pc[r] = "detect" /\ NeedsDetection(SessionOf(r))
         \/ pc[r] = "generate"
         \/ pc[r] = "callback")
        => running # r

\* The groups of the keyword list (intelligence_extractor.py lines 167-176)
\* that the five labels name, in the priority order of the labels; the
\* Money group is split as the labels split it, "reward" and "bonus" left
\* to neither.
VocabularyCategories ==
    << [terms |-> {"otp", "pin", "password", "cvv", "mpin", "atm pin"},
        label |-> "OTP/credential theft scam"],
       [terms |-> {"blocked", "suspended", "freeze", "locked", "terminated",
                   "deactivated"},
        label |-> "Account blocking fraud"],
       [terms |-> {"prize", "lottery", "winner"},
        label |-> "Lottery/prize scam"],
       [terms |-> {"refund", "cashback"},
        label |-> "Refund/cashback fraud"],
       [terms |-> {"kyc", "pan", "aadhar", "identity", "pan card"},
        label |-> "KYC verification scam"] >>

\* C16: the label of the notes is that of the first category, in the
\* priority order, one of whose vocabulary terms is among the matched
\* keywords, and the generic label only when no category has one.
C16_LabelOfFirstCategory ==
    call.op = "generate_agent_notes" =>
        LET hit == {i \in DOMAIN VocabularyCategories :
                      VocabularyCategories[i].terms \cap call.keywords # {}}
            label == IF hit = {} THEN "Financial fraud attempt"
                     ELSE VocabularyCategories[
                              CHOOSE i \in hit : \A j \in hit : i <= j].label
        IN  StartsWith(call.result, "Scam type: " \o label \o ".")

\* the digit runs of a text that stand alone: no letter, digit or underscore
\* before or after
StandaloneRuns(text) ==
    {SubSeq(text, ij[1], ij[2]) :
        ij \in {ij \in (1..Len(text)) \X (1..Len(text)) :
                  /\ ij[1] <= ij[2]
                  /\ \A k \in ij[1]..ij[2] : Char(text, k) \in Digit
                  /\ ij[1] = 1 \/ Char(text, ij[1] - 1) \notin WordChar
                  /\ ij[2] = Len(text) \/ Char(text, ij[2] + 1) \notin WordChar}}

\* a 10-digit value whose first digit is 6 to 9, or a 12-digit value that
\* starts with 91 and a digit 6 to 9
PhoneShaped(v) ==
    \/ Len(v) = 10 /\ Char(v, 1) \in {"6", "7", "8", "9"}
    \/ Len(v) = 12 /\ SubSeq(v, 1, 2) = "91" /\ Char(v, 3) \in {"6", "7", "8", "9"}

\* C17: extract_bank_accounts returns no phone-shaped value, and returns
\* every standalone digit run of 9 to 18 digits that is not phone-shaped.
C17_BankAccountsButPhones ==
    call.op = "extract_bank_accounts" =>
        /\ \A v \in call.result : ~PhoneShaped(v)
        /\ \A run \in StandaloneRuns(call.text) :
              (Len(run) \in 9..18 /\ ~PhoneShaped(run)) => run \in call.result

\* A text with a phone-shaped run of 12 digits and an account of 9
C17_Witness ==
    /\ call.op = "extract_bank_accounts"
    /\ call.text = "919876543210 123456789"
    /\ call.result = {"123456789"}

\* C18: each surface form of a subscriber number d, alone as the text,
\* makes extract_phone_numbers return {"+91" + d} and nothing else.
C18_PhoneFormsNormalised ==
    call.op = "extract_phone_numbers" =>
        /\ call.text \in PhoneForms(call.d)
        /\ call.result = {"+91" \o call.d}

\* The grouped form of a number that itself starts with 91
C18_Witness ==
    /\ call.op = "extract_phone_numbers"
    /\ call.text = "+91 91987 65432"
    /\ call.result = {"+919198765432"}

\* the part of a token after its @
SuffixOf(token) ==
    SubSeq(token, (CHOOSE i \in 1..Len(token) : Char(token, i) = "@") + 1,
           Len(token))

\* the suffix ends in no listed top-level domain and holds no listed
\* provider name
PaymentSuffix(suffix) ==
    /\ \A tld \in email_tlds : ~EndsWith(suffix, tld)
    /\ \A provider \in email_providers : ~Contains(suffix, provider)

\* C19: extract_upi_ids returns a handle@suffix token of the text (in lower
\* case, as line 67 lowers the text) exactly when its suffix ends in no
\* listed top-level domain and holds no listed provider name.
C19_PaymentHandlesOnly ==
    call.op = "extract_upi_ids" =>
        call.result = {Lower(token) : token \in
                         {t \in call.tokens : PaymentSuffix(SuffixOf(Lower(t)))}}

\* A text holding an email address and a payment handle
C19_Witness ==
    /\ call.op = "extract_upi_ids"
    /\ call.tokens = {"john@gmail.com", "john@ybl"}
    /\ call.result = {"john@ybl"}

\* C21: the notes are the same for every two intelligence records whose
\* five fields are equal as sets, whatever the order of their lists.
C21_NotesOfSets ==
    call.op = "generate_agent_notes" =>
        \A other \in MergedIntelligence(EmptyIntelligence,
                                         AsSets(call.intelligence)) :
            generate_agent_notes(<<Message("scammer", call.text, 1000)>>, other)
                = call.result

\* C22: update_intelligence leaves in each of the session's five fields a
\* list without repetition of exactly the elements it held and those of the
\* intelligence passed, and leaves the session's messages, scam_detected,
\* scam_confidence, callback_sent and agent_notes as they were (as a new
\* session has them, if the call created it).
C22_UpdateIsUnion ==
    [][call'.op = "update_intelligence" =>
          LET session_id == call'.session_id
              old == IF session_id \in DOMAIN sessions
                     THEN sessions[session_id] ELSE SessionState(session_id)
              new == sessions'[session_id]
          IN  /\ \A f \in IntelligenceFields :
                    /\ ToSet(new.extracted_intelligence[f])
                         = ToSet(old.extracted_intelligence[f])
                           \cup call'.intelligence[f]
                    /\ Len(new.extracted_intelligence[f])
                         = Cardinality(ToSet(new.extracted_intelligence[f]))
              /\ new.messages = old.messages
              /\ new.scam_detected = old.scam_detected
              /\ new.scam_confidence = old.scam_confidence
              /\ new.callback_sent = old.callback_sent
              /\ new.agent_notes = old.agent_notes
      ]_vars

\* A second account and a payment id merged into a marked session that
\* held one account
C22_Witness ==
    /\ call.op = "update_intelligence"
    /\ call.before.bankAccounts = {"123456789012"}
    /\ call.before.upiIds = {"john@ybl"}
    /\ call.intelligence.bankAccounts = {"123456789012", "998877665544"}
    /\ call.intelligence.upiIds = {}
    /\ sessions[call.session_id].scam_detected
    /\ Len(sessions[call.session_id].extracted_intelligence.bankAccounts) = 2
    /\ sessions[call.session_id].extracted_intelligence.upiIds = <<"john@ybl">>

\* the session a step of slot 1 works for
ActingSession ==
    IF pc[1] = "idle" THEN req'[1].request.sessionId
    ELSE req[1].request.sessionId

\* C23: a step of a request for one session leaves every other session of
\* the store as it was and takes none out; a session the step creates holds
\* the request's message alone, no intelligence, both flags false, no
\* confidence and no notes.
C23_SessionsIsolated ==
    [][/\ \A id \in DOMAIN sessions :
            /\ id \in DOMAIN sessions'
            /\ sessions'[id] # sessions[id] => id = ActingSession
       /\ \A id \in DOMAIN sessions' \ DOMAIN sessions :
            /\ id = ActingSession
            /\ sessions'[id] =
                 [SessionState(id) EXCEPT
                    !.messages = <<req'[1].request.message>>]
      ]_vars

\* A session created while the store held another one, marked and with
\* intelligence
C23_Witness ==
    /\ DOMAIN sessions = {"s1", "s2"}
    /\ sessions["s1"].scam_detected
    /\ sessions["s1"].extracted_intelligence.bankAccounts # <<>>
    /\ Len(sessions["s1"].messages) = 2
    /\ sessions["s2"].messages = <<Message("scammer", TextPlain, 1000)>>
    /\ ~sessions["s2"].scam_detected
    /\ sessions["s2"].extracted_intelligence = EmptyIntelligence

\* the reports whose POST has ended, and those being awaited
Dispatched ==
    {reports[i].payload : i \in DOMAIN reports}
        \cup {req[r].payload : r \in {r \in Slots : req[r].dispatched}}

\* C24: a session whose callback_sent is true has scam_detected true and a
\* policy that says stop; every report dispatched carries scamDetected
\* true; and a session with scam_detected false has callback_sent false
\* and no report dispatched for it, whatever its message count.
C24_ReportedIsDetectedAndStopped ==
    /\ \A id \in DOMAIN sessions :
          /\ sessions[id].callback_sent =>
                sessions[id].scam_detected /\ Stop(sessions[id])
          /\ ~sessions[id].scam_detected =>
                /\ ~sessions[id].callback_sent
                /\ \A payload \in Dispatched : payload.sessionId # id
    /\ \A payload \in Dispatched : payload.scamDetected

\* a reported session that went on growing after its report
C24_Witness ==
    /\ "s1" \in DOMAIN sessions
    /\ sessions["s1"].callback_sent
    /\ \E i \in DOMAIN reports :
          /\ reports[i].success /\ reports[i].payload.sessionId = "s1"
          /\ reports[i].payload.totalMessagesExchanged < Len(sessions["s1"].messages)

\* a session past the message ceiling in which no scam was detected
C24_UndetectedAtCeiling ==
    /\ "s1" \in DOMAIN sessions
    /\ ~sessions["s1"].scam_detected
    /\ Len(sessions["s1"].messages) >= 20
    /\ pc[1] = "respond" /\ req[1].should_end

\* the messages the store holds for a session, none for one it does not hold
StoredMessages(store, id) == IF id \in DOMAIN store THEN store[id].messages ELSE <<>>

\* the stored messages a caller sent
Incoming(messages) == {i \in DOMAIN messages : messages[i].sender = "scammer"}

\* C25: a valid request appends exactly two messages to its session's
\* transcript, its own message when it is accepted and the reply with
\* sender "user" when it is generated, whatever the length of its
\* conversationHistory, and no other step appends any; with the requests
\* served one after another the count when a response is built is twice the
\* number of the requests served, so totalMessagesExchanged is at least 2
\* and conversationStage is not 1.
C25_TwoMessagesPerRequest ==
    [][LET id == ActingSession
           old == StoredMessages(sessions, id)
           new == StoredMessages(sessions', id)
       IN  /\ (pc[1] = "idle" /\ pc'[1] = "detect") =>
                 new = Append(old, req'[1].request.message)
           /\ (pc[1] = "generate" /\ pc'[1] = "policy") =>
                 /\ Len(new) = Len(old) + 1
                 /\ SubSeq(new, 1, Len(old)) = old
                 /\ new[Len(new)].sender = "user"
                 /\ new[Len(new)].text = req'[1].agent_reply
           /\ ~(pc[1] = "idle" /\ pc'[1] = "detect")
                 /\ ~(pc[1] = "generate" /\ pc'[1] = "policy") =>
                 \A other \in DOMAIN sessions' :
                     StoredMessages(sessions', other) = StoredMessages(sessions, other)
           /\ (pc[1] = "respond" /\ pc'[1] = "idle") =>
                 /\ response'[1].body.totalMessagesExchanged = Len(old)
                 /\ Len(old) = 2 * Cardinality(Incoming(old))
                 /\ response'[1].body.totalMessagesExchanged >= 2
                 /\ response'[1].body.conversationStage # 1
      ]_vars

\* the second request of a session, which came with a conversationHistory
\* of one message, is about to be answered: four messages are stored
C25_Witness ==
    /\ pc[1] = "respond"
    /\ Len(req[1].request.conversationHistory) = 1
    /\ Len(SessionOf(1).messages) = 4
    /\ Cardinality(Incoming(SessionOf(1).messages)) = 2

\* C26: with the requests of a session served one after another, the tenth
\* valid request (the one that ends with 20 stored messages) of a session
\* whose scam_detected is true after its detection step ends with the
\* session already reported or with a report dispatched by this request,
\* whatever intelligence the session holds; a dispatch the endpoint answers
\* with success sets callback_sent, and callback_sent never goes back to
\* false.
C26_ReportedByTenthRequest ==
    [][/\ (/\ pc[1] = "respond" /\ pc'[1] = "idle"
            /\ Len(SessionOf(1).messages) = 20
            /\ SessionOf(1).scam_detected)
              => SessionOf(1).callback_sent \/ req[1].dispatched
       /\ CallbackReturn(1, "200")
              => sessions'[req[1].request.sessionId].callback_sent
       /\ \A id \in DOMAIN sessions :
             sessions[id].callback_sent =>
                 id \in DOMAIN sessions' /\ sessions'[id].callback_sent
      ]_vars

\* the tenth request of a session that holds no bank account, UPI id, phone
\* number or link is awaiting the answer to its report
C26_Witness ==
    /\ pc[1] = "callback" /\ req[1].dispatched
    /\ Len(SessionOf(1).messages) = 20
    /\ Categories(SessionOf(1).extracted_intelligence) = 0
    /\ req[1].end_reason = "Maximum message count reached"
    /\ ~SessionOf(1).callback_sent

====
